---- MODULE Spec2Model ----
(***************************************************************************)
(* Ranking core of edgerag: the BM25 keyword index (src/src/bm25.rs), the  *)
(* cosine-similarity vector store (src/src/vector.rs) and reciprocal-rank  *)
(* fusion (src/src/hybrid.rs).                                             *)
(*                                                                         *)
(* Every operation of the library is a synchronous call on immutable       *)
(* data, so a behaviour is: one call (its receiver and arguments drawn by  *)
(* Init), executed, and executed again any number of times on the same     *)
(* receiver and arguments.  `result` is what the latest execution          *)
(* returned, `previous` what the execution before it returned.             *)
(*                                                                         *)
(* f32 values are fixed-point numbers with Scale units per 1.0, extended   *)
(* with the IEEE-754 specials NaN, +inf and -inf.                          *)
(***************************************************************************)
EXTENDS Integers, Sequences, FiniteSets

VARIABLES op, args, result, previous

vars == <<op, args, result, previous>>

(***************************************************************************)
(* Bounds of the model.                                                    *)
(***************************************************************************)
\* fixed-point units per 1.0 of an f32
Scale == 10000
\* longest text handed to tokenize
MaxTextLen == 4
\* most documents in a BM25 index
MaxDocs == 2
\* most embeddings handed to VectorStore::new
MaxNew == 3
\* most embeddings of a searched vector store
MaxEmb == 2
\* largest limit handed to a search
MaxLimit == 2
\* longest ranked list handed to hybrid_search
MaxLen == 2

(***************************************************************************)
(* Outcomes of a call.                                                     *)
(***************************************************************************)
None == [k |-> "none"]
Ok(v) == [k |-> "ok", v |-> v]
Panic == [k |-> "panic"]

(***************************************************************************)
(* f32                                                                     *)
(***************************************************************************)
Fin(n) == [k |-> "fin", v |-> n]
NaN == [k |-> "nan", v |-> 0]
PosInf == [k |-> "inf", v |-> 1]
NegInf == [k |-> "inf", v |-> -1]

IsNaN(x) == x.k = "nan"
IsFin(x) == x.k = "fin"
IsInf(x) == x.k = "inf"

Sgn(n) == IF n > 0 THEN 1 ELSE IF n < 0 THEN -1 ELSE 0

\* integer quotient rounded toward zero, b # 0
Quot(a, b) ==
    LET q == (IF a < 0 THEN -a ELSE a) \div (IF b < 0 THEN -b ELSE b)
    IN  IF Sgn(a) * Sgn(b) < 0 THEN -q ELSE q

\* `n as f32` of a usize
FromUsize(n) == Fin(n * Scale)

\* a decimal literal num/den, e.g. 1.2 is Lit(12, 10)
Lit(num, den) == Fin((num * Scale) \div den)

FAdd(x, y) ==
    IF IsNaN(x) \/ IsNaN(y) THEN NaN
    ELSE IF IsInf(x) /\ IsInf(y) THEN (IF x.v = y.v THEN x ELSE NaN)
    ELSE IF IsInf(x) THEN x
    ELSE IF IsInf(y) THEN y
    ELSE Fin(x.v + y.v)

FNeg(x) == IF IsNaN(x) THEN NaN ELSE [k |-> x.k, v |-> -x.v]

FSub(x, y) == FAdd(x, FNeg(y))

FMul(x, y) ==
    IF IsNaN(x) \/ IsNaN(y) THEN NaN
    ELSE IF IsInf(x) \/ IsInf(y)
         THEN (IF x.v = 0 \/ y.v = 0 THEN NaN
               ELSE IF Sgn(x.v) * Sgn(y.v) > 0 THEN PosInf ELSE NegInf)
    ELSE Fin(Quot(x.v * y.v, Scale))

\* a zero divisor is +0.0: every divisor of the code is a sum or product of
\* non-negative values, or a stored field whose zero is written 0.0
FDiv(x, y) ==
    IF IsNaN(x) \/ IsNaN(y) THEN NaN
    ELSE IF IsInf(x) /\ IsInf(y) THEN NaN
    ELSE IF IsInf(x) THEN (IF Sgn(x.v) * Sgn(y.v) < 0 THEN NegInf ELSE PosInf)
    ELSE IF IsInf(y) THEN Fin(0)
    ELSE IF y.v = 0
         THEN (IF x.v = 0 THEN NaN ELSE IF x.v > 0 THEN PosInf ELSE NegInf)
    ELSE Fin(Quot(x.v * Scale, y.v))

\* a < b on f32: false when either side is NaN
FLt(x, y) ==
    /\ ~IsNaN(x)
    /\ ~IsNaN(y)
    /\ IF IsFin(x) /\ IsFin(y) THEN x.v < y.v
       ELSE IF IsInf(x) THEN x.v = -1 /\ y # x
       ELSE y.v = 1

FGt(x, y) == FLt(y, x)

\* f32::max: a NaN operand yields the other operand
FMax(x, y) ==
    IF IsNaN(x) THEN y
    ELSE IF IsNaN(y) THEN x
    ELSE IF FLt(x, y) THEN y ELSE x

\* the largest r with r * r <= n, searched in lo..hi (lo * lo <= n < (hi + 1)^2)
RECURSIVE ISqrt(_, _, _)
ISqrt(n, lo, hi) ==
    IF lo >= hi THEN lo
    ELSE LET mid == (lo + hi + 1) \div 2
         IN  IF mid * mid <= n THEN ISqrt(n, mid, hi) ELSE ISqrt(n, lo, mid - 1)

\* f32::sqrt
FSqrt(x) ==
    IF IsNaN(x) THEN NaN
    ELSE IF IsInf(x) THEN (IF x.v > 0 THEN PosInf ELSE NaN)
    ELSE IF x.v < 0 THEN NaN
    ELSE Fin(ISqrt(x.v * Scale, 0, Scale + x.v))

\* 2 * atanh(z) by its series, for v in Scale..2*Scale with z = (v-1)/(v+1)
LnSeries(v) ==
    LET z == ((v - Scale) * Scale) \div (v + Scale)
        z2 == (z * z) \div Scale
        z3 == (z * z2) \div Scale
        z5 == (z3 * z2) \div Scale
        z7 == (z5 * z2) \div Scale
    IN  2 * (z + z3 \div 3 + z5 \div 5 + z7 \div 7)

\* ln of the positive fixed-point number v
RECURSIVE LnFix(_)
LnFix(v) ==
    IF v < Scale THEN -LnFix((Scale * Scale) \div v)
    ELSE IF v > 2 * Scale THEN LnFix((v + 1) \div 2) + LnSeries(2 * Scale)
    ELSE LnSeries(v)

\* f32::ln
FLn(x) ==
    IF IsNaN(x) THEN NaN
    ELSE IF IsInf(x) THEN (IF x.v > 0 THEN PosInf ELSE NaN)
    ELSE IF x.v < 0 THEN NaN
    ELSE IF x.v = 0 THEN NegInf
    ELSE Fin(LnFix(x.v))

\* f32::partial_cmp
PartialCmp(x, y) ==
    IF IsNaN(x) \/ IsNaN(y) THEN "None"
    ELSE IF FLt(x, y) THEN "Less"
    ELSE IF FLt(y, x) THEN "Greater"
    ELSE "Equal"

(***************************************************************************)
(* tokenize                                                                *)
(***************************************************************************)
\* the characters of the model: two ASCII lowercase letters, an ASCII
\* uppercase letter, a separator, and a letter outside ASCII (U+00E9)
Chars == {"a", "b", "A", " ", "eacute"}

IsAlphanumeric(c) == c \in {"a", "b", "A", "eacute"}

\* char-wise str::to_lowercase
CharToLowercase(c) == IF c = "A" THEN "a" ELSE c

ToLowercase(text) == [i \in 1..Len(text) |-> CharToLowercase(text[i])]

\* bytes of the UTF-8 encoding of a character
LenUtf8(c) == IF c = "eacute" THEN 2 ELSE 1

\* str::len: the length in bytes
RECURSIVE StrLen(_)
StrLen(s) == IF s = <<>> THEN 0 ELSE LenUtf8(Head(s)) + StrLen(Tail(s))

\* str::split on the separator characters: every fragment, the empty ones too
RECURSIVE SplitFrom(_, _, _)
SplitFrom(s, cur, acc) ==
    IF s = <<>> THEN Append(acc, cur)
    ELSE IF IsAlphanumeric(Head(s)) THEN SplitFrom(Tail(s), Append(cur, Head(s)), acc)
    ELSE SplitFrom(Tail(s), <<>>, Append(acc, cur))

Split(s) == SplitFrom(s, <<>>, <<>>)

\* the filter of tokenize
KeepToken(s) == s # <<>> /\ StrLen(s) >= 2

tokenize(text) == SelectSeq(Split(ToLowercase(text)), KeepToken)

(***************************************************************************)
(* Vec<(usize, f32)>: sorting, truncation, HashMap iteration               *)
(***************************************************************************)
Min(a, b) == IF a < b THEN a ELSE b

\* Vec::truncate without its effect
TruncateKeepsAll(s, n) == s

\* Vec::truncate
Truncate(s, n) == SubSeq(s, 1, Min(n, Len(s)))

\* the comparator handed to sort_by by all three searches: descending by
\* score, an undefined comparison (a NaN) taken as Equal
CompareDesc(a, b) ==
    LET c == PartialCmp(b[2], a[2])
    IN  IF c = "None" THEN "Equal" ELSE c

\* whether the comparator is a total order on the entries of s (slice::sort_by
\* specifies its result only then)
IsTotalOrderOn(s) ==
    \A i, j, k \in 1..Len(s) :
        (CompareDesc(s[i], s[j]) # "Greater" /\ CompareDesc(s[j], s[k]) # "Greater")
            => CompareDesc(s[i], s[k]) # "Greater"

\* x goes after every entry it is not strictly Less than: the sort is stable
RECURSIVE InsertDesc(_, _)
InsertDesc(sorted, x) ==
    IF sorted = <<>> THEN <<x>>
    ELSE IF CompareDesc(x, sorted[Len(sorted)]) = "Less"
         THEN Append(InsertDesc(SubSeq(sorted, 1, Len(sorted) - 1), x), sorted[Len(sorted)])
    ELSE Append(sorted, x)

RECURSIVE StableSortDesc(_)
StableSortDesc(s) ==
    IF s = <<>> THEN <<>>
    ELSE InsertDesc(StableSortDesc(SubSeq(s, 1, Len(s) - 1)), s[Len(s)])

\* every arrangement of the entries of s
Arrangements(s) ==
    {[i \in 1..Len(s) |-> s[p[i]]] :
        p \in {q \in [1..Len(s) -> 1..Len(s)] : \A i, j \in 1..Len(s) : q[i] = q[j] => i = j}}

\* slice::sort_by with CompareDesc, then truncate(limit), as outcomes of the
\* call: the stable sort when the comparator is a total order on the entries;
\* otherwise the order is unspecified and the sort may panic
SortTruncate(s, limit) ==
    IF IsTotalOrderOn(s) THEN {Ok(Truncate(StableSortDesc(s), limit))}
    ELSE {Ok(Truncate(p, limit)) : p \in Arrangements(s)} \cup {Panic}

\* HashMap<usize, f32>::into_iter().collect(): the entries in an order the
\* hasher's per-map random keys decide
IntoIterOrders(m) ==
    {[i \in 1..Len(ks) |-> <<ks[i], m[ks[i]]>>] :
        ks \in {q \in [1..Cardinality(DOMAIN m) -> DOMAIN m] :
                    \A i, j \in 1..Cardinality(DOMAIN m) : q[i] = q[j] => i = j}}

(***************************************************************************)
(* hybrid_search                                                           *)
(***************************************************************************)
\* let k = 60.0
RrfK == 60

\* the rank taken 0-based: 1.0 / (k + rank as f32)
RrfScoreZeroBased(pos) == FDiv(Fin(Scale), FAdd(FromUsize(RrfK), FromUsize(pos - 1)))

\* 1.0 / (k + (rank + 1) as f32), pos being rank + 1
RrfScore(pos) == FDiv(Fin(Scale), FAdd(FromUsize(RrfK), FromUsize(pos)))

\* entry(idx).or_insert(score) alone: a second contribution is lost
AddOrInsertKeepsFirst(m, idx, score) ==
    [x \in DOMAIN m \cup {idx} |-> IF x \in DOMAIN m THEN m[x] ELSE score]

\* entry(idx).and_modify(|s| *s += score).or_insert(score)
AddOrInsert(m, idx, score) ==
    IF idx \in DOMAIN m THEN [m EXCEPT ![idx] = FAdd(@, score)]
    ELSE [x \in DOMAIN m \cup {idx} |-> IF x = idx THEN score ELSE m[x]]

\* one of the two loops of hybrid_search, from position pos of the list on
RECURSIVE AddRanks(_, _, _)
AddRanks(m, list, pos) ==
    IF pos > Len(list) THEN m
    ELSE AddRanks(AddOrInsert(m, list[pos][1], RrfScore(pos)), list, pos + 1)

EmptyMap == [x \in {} |-> Fin(0)]

\* combined_scores after both loops
CombinedScores(keyword_results, semantic_results) ==
    AddRanks(AddRanks(EmptyMap, keyword_results, 1), semantic_results, 1)

\* the outcomes of hybrid_search(keyword_results, semantic_results, limit)
hybrid_search(keyword_results, semantic_results, limit) ==
    UNION {SortTruncate(final_results, limit) :
            final_results \in IntoIterOrders(CombinedScores(keyword_results, semantic_results))}

(***************************************************************************)
(* Bm25Index                                                               *)
(***************************************************************************)
\* k1: 1.2 and b: 0.75 of Bm25Index::new
K1 == Lit(12, 10)
B == Lit(75, 100)

\* HashMap::get(key), None as the default
Get(m, key, default) == IF key \in DOMAIN m THEN m[key] ELSE default

\* postings.iter().find(|(id, _)| *id == doc_id).map(|(_, freq)| *freq)
RECURSIVE FindFreq(_, _, _)
FindFreq(postings, doc_id, pos) ==
    IF pos > Len(postings) THEN 0
    ELSE IF postings[pos][1] = doc_id THEN postings[pos][2]
    ELSE FindFreq(postings, doc_id, pos + 1)

get_term_frequency(index, term, doc_id) ==
    FindFreq(Get(index.inverted_index, term, <<>>), doc_id, 1)

\* idf * normalized_tf of calculate_score, for nonzero tf and df
TermScore(index, term, doc_id, length_norm) ==
    LET tf == FromUsize(get_term_frequency(index, term, doc_id))
        df == FromUsize(Get(index.doc_frequencies, term, 0))
        idf == FLn(FAdd(FDiv(FAdd(FSub(FromUsize(index.total_docs), df), Lit(1, 2)),
                             FAdd(df, Lit(1, 2))),
                        Fin(Scale)))
        normalized_tf == FDiv(FMul(tf, FAdd(K1, Fin(Scale))),
                              FAdd(tf, FMul(K1, length_norm)))
    IN  FMul(idf, normalized_tf)

\* the loop of calculate_score over the query tokens from position pos on;
\* a term of zero tf or zero df is skipped
RECURSIVE SumTerms(_, _, _, _, _, _)
SumTerms(index, query_tokens, doc_id, length_norm, pos, score) ==
    IF pos > Len(query_tokens) THEN score
    ELSE LET tf == get_term_frequency(index, query_tokens[pos], doc_id)
             df == Get(index.doc_frequencies, query_tokens[pos], 0)
         IN  SumTerms(index, query_tokens, doc_id, length_norm, pos + 1,
                      IF tf = 0 \/ df = 0 THEN score
                      ELSE FAdd(score, TermScore(index, query_tokens[pos], doc_id, length_norm)))

\* 1.0 - self.b + self.b * (doc_length / self.avg_doc_length)
LengthNorm(index, doc_id) ==
    FAdd(FSub(Fin(Scale), B),
         FMul(B, FDiv(FromUsize(index.doc_lengths[doc_id + 1]), index.avg_doc_length)))

\* calculate_score, for a doc_id within doc_lengths
calculate_score(index, query_tokens, doc_id) ==
    SumTerms(index, query_tokens, doc_id, LengthNorm(index, doc_id), 1, Fin(0))

\* self.doc_lengths[doc_id] panics when doc_id is out of range
IndexInRange(index, doc_id) == doc_id < Len(index.doc_lengths)

\* the loop of Bm25Index::search from doc_id on: the scores map, or Panic
RECURSIVE ScoreDocs(_, _, _, _)
ScoreDocs(index, query_tokens, doc_id, scores) ==
    IF doc_id >= index.total_docs THEN Ok(scores)
    ELSE IF ~IndexInRange(index, doc_id) THEN Panic
    ELSE LET score == calculate_score(index, query_tokens, doc_id)
         IN  ScoreDocs(index, query_tokens, doc_id + 1,
                       IF FGt(score, Fin(0))
                       THEN [d \in DOMAIN scores \cup {doc_id} |->
                                IF d = doc_id THEN score ELSE scores[d]]
                       ELSE scores)

\* the outcomes of Bm25Index::search
Bm25SearchOutcomes(index, query, limit) ==
    IF index.total_docs = 0 THEN {Ok(<<>>)}
    ELSE IF tokenize(query) = <<>> THEN {Ok(<<>>)}
    ELSE LET scored == ScoreDocs(index, tokenize(query), 0, [d \in {} |-> Fin(0)])
         IN  IF scored = Panic THEN {Panic}
             ELSE UNION {SortTruncate(results, limit) : results \in IntoIterOrders(scored.v)}

(***************************************************************************)
(* VectorStore                                                             *)
(***************************************************************************)
Err(index, found, expected) ==
    [k |-> "err", index |-> index, found |-> found, expected |-> expected]

\* the loop without its early return: the last mismatch is the one reported
CheckDimensionsLast(embeddings, dimension, pos) ==
    LET bad == {i \in pos..Len(embeddings) : Len(embeddings[i]) # dimension}
    IN  IF bad = {} THEN Ok([embeddings |-> embeddings, dimension |-> dimension])
        ELSE LET last == CHOOSE i \in bad : \A j \in bad : j <= i
             IN  Err(last - 1, Len(embeddings[last]), dimension)

\* the loop of VectorStore::new from position pos on (index pos - 1): the
\* error of the first embedding whose length is not dimension, else the store
RECURSIVE CheckDimensions(_, _, _)
CheckDimensions(embeddings, dimension, pos) ==
    IF pos > Len(embeddings)
    THEN Ok([embeddings |-> embeddings, dimension |-> dimension])
    ELSE IF Len(embeddings[pos]) # dimension
         THEN Err(pos - 1, Len(embeddings[pos]), dimension)
    ELSE CheckDimensions(embeddings, dimension, pos + 1)

\* VectorStore::new
VectorStoreNew(embeddings) ==
    IF embeddings = <<>> THEN Ok([embeddings |-> <<>>, dimension |-> 0])
    ELSE CheckDimensions(embeddings, Len(embeddings[1]), 1)

\* the sums of the loop of cosine_similarity from position pos on
RECURSIVE Accumulate(_, _, _, _)
Accumulate(a, b, pos, acc) ==
    IF pos > Len(a) THEN acc
    ELSE Accumulate(a, b, pos + 1,
            [dot_product |-> FAdd(acc.dot_product, FMul(a[pos], b[pos])),
             norm_a |-> FAdd(acc.norm_a, FMul(a[pos], a[pos])),
             norm_b |-> FAdd(acc.norm_b, FMul(b[pos], b[pos]))])

\* the 1e-9 the denominator is clamped to: the smallest positive f32 of the model
MinDenominator == Fin(1)

cosine_similarity(a, b) ==
    IF Len(a) # Len(b) THEN Fin(0)
    ELSE LET sums == Accumulate(a, b, 1,
                        [dot_product |-> Fin(0), norm_a |-> Fin(0), norm_b |-> Fin(0)])
             denominator == FMax(FMul(FSqrt(sums.norm_a), FSqrt(sums.norm_b)), MinDenominator)
         IN  FDiv(sums.dot_product, denominator)

\* the outcomes of VectorStore::search
VectorSearchOutcomes(store, query_embedding, limit) ==
    IF store.embeddings = <<>> \/ Len(query_embedding) # store.dimension THEN {Ok(<<>>)}
    ELSE SortTruncate(
            [i \in 1..Len(store.embeddings) |->
                <<i - 1, cosine_similarity(query_embedding, store.embeddings[i])>>],
            limit)

(***************************************************************************)
(* Inputs                                                                  *)
(***************************************************************************)
SeqsUpTo(S, n) == UNION {[1..m -> S] : m \in 0..n}

Texts == SeqsUpTo(Chars, MaxTextLen)

Limits == 0..MaxLimit

\* embeddings: vectors of 0, 1 or 2 components among 0.0, 1.0 and NaN
One == Fin(Scale)
Vectors == {<<>>, <<One>>, <<NaN>>, <<One, Fin(0)>>, <<Fin(0), One>>, <<One, One>>}
EmbeddingLists == SeqsUpTo(Vectors, MaxNew)
\* a store is any value of its two public fields
Stores == [embeddings : SeqsUpTo(Vectors, MaxEmb), dimension : {1, 2}]
QueryEmbeddings == {<<One, Fin(0)>>, <<One, One>>, <<One>>}

\* the one term of the indexed corpus, and the queries
Term == <<"a", "b">>
QueryTexts == {<<"a">>, <<"a", "b">>, <<"A", "b", " ", "a", "b">>, <<"b", "a">>}

\* HashMap<String, _> over the terms of the corpus: Term absent, or mapped
StrMaps(Values) == {[t \in {} |-> 0]} \cup {[t \in {Term} |-> v] : v \in Values}

\* postings: (doc_id, term frequency 1) for the documents of a set, ascending
RECURSIVE PostingsOf(_, _)
PostingsOf(docs, doc_id) ==
    IF doc_id >= MaxDocs THEN <<>>
    ELSE (IF doc_id \in docs THEN <<(<<doc_id, 1>>)>> ELSE <<>>) \o PostingsOf(docs, doc_id + 1)

\* a Bm25Index is any value of its fields (it derives Deserialize)
Indexes ==
    [doc_frequencies : StrMaps({1, 2}),
     doc_lengths : SeqsUpTo({0, 2}, MaxDocs),
     avg_doc_length : {Fin(0), Fin(2 * Scale)},
     total_docs : 0..MaxDocs,
     inverted_index : StrMaps({PostingsOf(docs, 0) : docs \in SUBSET (0..(MaxDocs - 1))})]

\* document ids and raw scores of the ranked lists handed to hybrid_search
HybridIds == {5, 7}
RawScores == {Lit(1, 2), Lit(3, 2)}
RankedLists == SeqsUpTo(HybridIds \X RawScores, MaxLen)

(***************************************************************************)
(* Calls                                                                   *)
(***************************************************************************)
InitTokenize ==
    /\ op = "tokenize"
    /\ args \in [text : Texts]
    /\ result = None
    /\ previous = None

Tokenize ==
    /\ op = "tokenize"
    /\ result' = Ok(tokenize(args.text))
    /\ previous' = result
    /\ UNCHANGED <<op, args>>

SpecTokenize == InitTokenize /\ [][Tokenize]_vars

InitHybrid ==
    /\ op = "hybrid_search"
    /\ args \in [keyword_results : RankedLists, semantic_results : RankedLists,
                 limit : Limits]
    /\ result = None
    /\ previous = None

HybridSearch ==
    /\ op = "hybrid_search"
    /\ result' \in hybrid_search(args.keyword_results, args.semantic_results, args.limit)
    /\ previous' = result
    /\ UNCHANGED <<op, args>>

SpecHybrid == InitHybrid /\ [][HybridSearch]_vars

InitVectorNew ==
    /\ op = "vector_new"
    /\ args \in [embeddings : EmbeddingLists]
    /\ result = None
    /\ previous = None

VectorNew ==
    /\ op = "vector_new"
    /\ result' = VectorStoreNew(args.embeddings)
    /\ previous' = result
    /\ UNCHANGED <<op, args>>

InitVectorSearch ==
    /\ op = "vector_search"
    /\ args \in [store : Stores, query_embedding : QueryEmbeddings, limit : Limits]
    /\ result = None
    /\ previous = None

VectorSearch ==
    /\ op = "vector_search"
    /\ result' \in VectorSearchOutcomes(args.store, args.query_embedding, args.limit)
    /\ previous' = result
    /\ UNCHANGED <<op, args>>

InitBm25Search ==
    /\ op = "bm25_search"
    /\ args \in [index : Indexes, query : QueryTexts, limit : Limits]
    /\ result = None
    /\ previous = None

Bm25Search ==
    /\ op = "bm25_search"
    /\ result' \in Bm25SearchOutcomes(args.index, args.query, args.limit)
    /\ previous' = result
    /\ UNCHANGED <<op, args>>

SpecBm25 == InitBm25Search /\ [][Bm25Search]_vars

SpecVector == (InitVectorNew \/ InitVectorSearch) /\ [][VectorNew \/ VectorSearch]_vars

Init == InitTokenize \/ InitBm25Search \/ InitVectorNew \/ InitVectorSearch \/ InitHybrid

Next == Tokenize \/ Bm25Search \/ VectorNew \/ VectorSearch \/ HybridSearch

Spec == Init /\ [][Next]_vars

(***************************************************************************)
(* Properties                                                              *)
(***************************************************************************)
\* a >= b on f32: false when either side is NaN
FGe(x, y) == ~IsNaN(x) /\ ~IsNaN(y) /\ ~FLt(x, y)

IsSearch == op \in {"bm25_search", "vector_search", "hybrid_search"}

Returned == result.k = "ok"

\* the ids of a ranked list, in order
IdsOf(list) == [i \in 1..Len(list) |-> list[i][1]]

IdSet(list) == {list[i][1] : i \in 1..Len(list)}

\* the (id, score) pairs a search sorts and truncates
Candidates ==
    IF op = "hybrid_search"
    THEN LET m == CombinedScores(args.keyword_results, args.semantic_results)
         IN  {<<id, m[id]>> : id \in DOMAIN m}
    ELSE IF op = "vector_search"
    THEN (IF args.store.embeddings = <<>> \/ Len(args.query_embedding) # args.store.dimension
          THEN {}
          ELSE {<<i - 1, cosine_similarity(args.query_embedding, args.store.embeddings[i])>> :
                    i \in 1..Len(args.store.embeddings)})
    ELSE IF op = "bm25_search"
    THEN (IF args.index.total_docs = 0 \/ tokenize(args.query) = <<>> THEN {}
          ELSE LET scored == ScoreDocs(args.index, tokenize(args.query), 0, [d \in {} |-> Fin(0)])
               IN  IF scored = Panic THEN {} ELSE {<<d, scored.v[d]>> : d \in DOMAIN scored.v})
    ELSE {}

\* C1: the sequence a search returns is never longer than its limit
\* (Bm25Index::search, VectorStore::search and hybrid_search alike, for
\* limit 0 and for limits above the number of candidates).
C1_BoundedOutput == (IsSearch /\ Returned) => Len(result.v) <= args.limit

\* C1 witness: a search with more candidates than its positive limit returned
\* exactly limit entries.
C1_Witness ==
    /\ IsSearch
    /\ Returned
    /\ args.limit > 0
    /\ Cardinality(Candidates) > args.limit
    /\ Len(result.v) = args.limit

\* C2: in the sequence a search returns the score at position i is >= the
\* score at every later position j, and no candidate left out has a score
\* strictly greater than a returned one.
C2_Ordering ==
    (IsSearch /\ Returned) =>
        /\ \A i, j \in 1..Len(result.v) : i < j => FGe(result.v[i][2], result.v[j][2])
        /\ \A c \in Candidates : \A i \in 1..Len(result.v) :
                (\A j \in 1..Len(result.v) : result.v[j] # c) => ~FGt(c[2], result.v[i][2])

\* the 1-based position of the first embedding whose length differs from the
\* first embedding's, 0 when there is none
FirstOffending(embeddings) ==
    LET bad == {i \in 1..Len(embeddings) : Len(embeddings[i]) # Len(embeddings[1])}
    IN  IF bad = {} THEN 0 ELSE CHOOSE i \in bad : \A j \in bad : i <= j

\* C3: VectorStore::new of no embeddings is the store of dimension 0 with no
\* vectors; otherwise the dimension is the length of embeddings[0], a vector
\* of another length makes it fail with the lowest offending index, that
\* vector's length and the expected length, and a store that is built holds
\* the input unchanged, every embedding of length dimension.
C3_DimensionInvariant ==
    (op = "vector_new" /\ result # None) =>
        IF args.embeddings = <<>>
        THEN result = Ok([embeddings |-> <<>>, dimension |-> 0])
        ELSE IF FirstOffending(args.embeddings) = 0
        THEN /\ result = Ok([embeddings |-> args.embeddings,
                             dimension |-> Len(args.embeddings[1])])
             /\ \A i \in 1..Len(result.v.embeddings) :
                    Len(result.v.embeddings[i]) = result.v.dimension
        ELSE result = Err(FirstOffending(args.embeddings) - 1,
                          Len(args.embeddings[FirstOffending(args.embeddings)]),
                          Len(args.embeddings[1]))

\* C3 witness: a construction that failed on input with two offending
\* vectors of different lengths.
C3_Witness ==
    /\ op = "vector_new"
    /\ result.k = "err"
    /\ \E i, j \in 1..Len(args.embeddings) :
            /\ i < j
            /\ Len(args.embeddings[i]) # Len(args.embeddings[1])
            /\ Len(args.embeddings[j]) # Len(args.embeddings[1])
            /\ Len(args.embeddings[i]) # Len(args.embeddings[j])

\* C4: Bm25Index::search and VectorStore::search never fail, whatever the
\* fields of the index or store, and the degenerate inputs (no documents, a
\* query without tokens, an empty store, a query embedding of another
\* length than dimension) return the empty sequence.
C4_SearchTotality ==
    (op \in {"bm25_search", "vector_search"} /\ result # None) =>
        /\ Returned
        /\ (op = "bm25_search"
                /\ (args.index.total_docs = 0 \/ tokenize(args.query) = <<>>))
            => result.v = <<>>
        /\ (op = "vector_search"
                /\ (args.store.embeddings = <<>>
                        \/ Len(args.query_embedding) # args.store.dimension))
            => result.v = <<>>

\* the sum of 1/(60 + rank) over the entries of list that carry id
RECURSIVE RrfSum(_, _, _)
RrfSum(list, id, rank) ==
    IF rank > Len(list) THEN 0
    ELSE (IF list[rank][1] = id THEN (Scale * Scale) \div ((RrfK + rank) * Scale) ELSE 0)
            + RrfSum(list, id, rank + 1)

\* C5: the fused score of every id hybrid_search returns is the sum, over
\* the entries of both lists that carry the id, of 1/(60 + rank), rank the
\* 1-based position in the entry's own list; it is a function of the ids
\* and their positions alone, so the raw scores of the inputs never show.
C5_RrfScoring ==
    (op = "hybrid_search" /\ Returned) =>
        \A i \in 1..Len(result.v) :
            result.v[i][2] = Fin(RrfSum(args.keyword_results, result.v[i][1], 1)
                                    + RrfSum(args.semantic_results, result.v[i][1], 1))

\* C5 witness: a returned id that both lists carry, one of them twice, the
\* raw scores of its entries differing.
C5_Witness ==
    /\ op = "hybrid_search"
    /\ Returned
    /\ \E i \in 1..Len(result.v) :
        \E p, q \in 1..Len(args.keyword_results) : \E r \in 1..Len(args.semantic_results) :
            /\ p < q
            /\ args.keyword_results[p][1] = result.v[i][1]
            /\ args.keyword_results[q][1] = result.v[i][1]
            /\ args.semantic_results[r][1] = result.v[i][1]
            /\ args.keyword_results[p][2] # args.semantic_results[r][2]

\* C6: with a limit of at least the number of distinct ids, hybrid_search
\* returns exactly the ids of the two lists, each once; and an id in both
\* lists has a fused score strictly above the score its entries in either
\* list alone give, at whatever rank they stand.
C6_FusionCompleteness ==
    (op = "hybrid_search" /\ Returned) =>
        LET ids == IdSet(args.keyword_results) \cup IdSet(args.semantic_results)
        IN  /\ args.limit >= Cardinality(ids) =>
                /\ Len(result.v) = Cardinality(ids)
                /\ {result.v[i][1] : i \in 1..Len(result.v)} = ids
            /\ \A i \in 1..Len(result.v) :
                    (result.v[i][1] \in IdSet(args.keyword_results)
                        /\ result.v[i][1] \in IdSet(args.semantic_results))
                    => /\ FGt(result.v[i][2], Fin(RrfSum(args.keyword_results, result.v[i][1], 1)))
                       /\ FGt(result.v[i][2], Fin(RrfSum(args.semantic_results, result.v[i][1], 1)))

\* C6 witness: both ids returned, one of them at rank 1 of both lists, the
\* other in one list only.
C6_Witness ==
    /\ op = "hybrid_search"
    /\ Returned
    /\ Len(result.v) = 2
    /\ Len(args.keyword_results) = 2
    /\ Len(args.semantic_results) = 1
    /\ args.keyword_results[1][1] = args.semantic_results[1][1]
    /\ args.keyword_results[2][1] # args.keyword_results[1][1]

\* C7: a repeated Bm25Index::search on the same index, query and limit
\* returns the same ordered sequence, equal scores included.
C7_Bm25Determinism ==
    (op = "bm25_search" /\ previous # None) => result = previous

\* C8: for keyword ids [5, 7] and semantic ids [7, 5] with room for both,
\* the two ids get equal fused scores and every call returns them in the
\* same order.
C8_ScenarioCTieBreak ==
    (/\ op = "hybrid_search"
     /\ IdsOf(args.keyword_results) = <<5, 7>>
     /\ IdsOf(args.semantic_results) = <<7, 5>>
     /\ args.limit >= 2
     /\ result # None)
    => /\ Returned
       /\ Len(result.v) = 2
       /\ result.v[1][2] = result.v[2][2]
       /\ previous # None => result = previous

\* the tokens of the claim: the lowercased maximal alphanumeric runs of at
\* least 2 characters
RunsOfTwoChars(text) == SelectSeq(Split(ToLowercase(text)), LAMBDA s : Len(s) >= 2)

\* C9: tokenize returns, in order and with duplicates, exactly the
\* lowercased maximal runs of alphanumeric characters that are at least 2
\* characters long, whatever the byte width of the characters.
C9_TokenizerNormalization ==
    (op = "tokenize" /\ result # None) => result = Ok(RunsOfTwoChars(args.text))

\* the score of the claim for a zero avg_doc_length: length_norm taken as 1 - b
GuardedScore(index, query_tokens, doc_id) ==
    SumTerms(index, query_tokens, doc_id, FSub(Fin(Scale), B), 1, Fin(0))

\* C10: with total_docs > 0 and a zero avg_doc_length, every document whose
\* score with length_norm = 1 - b is positive is returned with that score
\* (the limit leaving room for every document, doc_lengths covering them).
C10_ZeroAvgGuard ==
    (/\ op = "bm25_search"
     /\ Returned
     /\ args.index.total_docs > 0
     /\ args.index.total_docs <= Len(args.index.doc_lengths)
     /\ args.index.avg_doc_length = Fin(0)
     /\ args.limit >= args.index.total_docs)
    => \A doc_id \in 0..(args.index.total_docs - 1) :
           FGt(GuardedScore(args.index, tokenize(args.query), doc_id), Fin(0))
           => \E i \in 1..Len(result.v) :
                  result.v[i] = <<doc_id, GuardedScore(args.index, tokenize(args.query), doc_id)>>

====
